---------------------------- MODULE Spec2Model ----------------------------
(***************************************************************************)
(* A state-machine model of ns_trcd_runner: the command line front end     *)
(* (main.py), the multi-wavelength acquisition loop and its helpers        *)
(* (experiment.py), the oscilloscope wrapper (oscilloscope.py) and the     *)
(* stepper that drives the etalon (stepper.py).                            *)
(*                                                                         *)
(* Units.  Wavelengths are integers in 1/1000 nm (790000 is 790 nm), so    *)
(* that floor(w*100) is w \div 10.  Vertical scales and offsets and all    *)
(* voltages are integers in one common unit in which the scales 2e-3,      *)
(* 10e-3 and 100e-3 of the source are 2, 10 and 100.  Python's None is the *)
(* empty sequence and a present value v is <<v>>.                          *)
(***************************************************************************)
EXTENDS Integers, Sequences, FiniteSets, TLC

(***************************************************************************)
(* Bounds of the model.                                                    *)
(***************************************************************************)
MaxMeas == 3
MaxChunk == 2
MaxDarkTraces == 1

(***************************************************************************)
(* Program constants.                                                      *)
(***************************************************************************)
DarkScale == 2
CoarseScale == 100
ExpScale == 10
PumpBlocked == 0
PumpOpen == 8
ParkPos == 850
WlMin == 780000
WlMax == 850000

None == << >>
Some(v) == << v >>
IsNone(o) == o = << >>
Val(o) == o[1]

(***************************************************************************)
(* Inputs: the values the command line options are drawn from.             *)
(***************************************************************************)
WStarts == { None, Some(849500), Some(850000), Some(779000) }
WStops == { None, Some(850000), Some(849500) }
WSteps == { None, Some(0), Some(1000), Some(500), Some(2000), Some(-1000) }
WLists == { << >>, << 790000, 800000 >>, << 800001, 800002 >>, << 800000 >> }

(***************************************************************************)
(* The waveforms the digitizer delivers, one per trigger, cycling from a   *)
(* position chosen at start-up.                                            *)
(***************************************************************************)
Waveforms ==
  << [par |-> << 1, 3 >>, perp |-> << 2, 6 >>, ref |-> << 4, 4 >>],
     [par |-> << 0, 2 >>, perp |-> << 3, 3 >>, ref |-> << 1, 5 >>],
     [par |-> << 12345, 12346 >>, perp |-> << 1, 1 >>, ref |-> << 0, 6 >>] >>

Channels == 1 .. 3

(***************************************************************************)
(* Pure helpers.                                                           *)
(***************************************************************************)
RECURSIVE Sum(_)
Sum(s) == IF s = << >> THEN 0 ELSE Head(s) + Sum(Tail(s))

\* numpy's ndarray.mean(); exact here because every sum is even
Mean(s) == Sum(s) \div Len(s)

Abs(x) == IF x < 0 THEN -x ELSE x

RECURSIVE Pow10For(_)
Pow10For(a) == IF a < 100000 THEN 1 ELSE 10 * Pow10For(a \div 10)

\* the "{x:.4E}" format of set_vertical_scale / set_vertical_offset:
\* five significant digits, a tie going to the even digit
Fmt4E(x) ==
  LET a == Abs(x)
      p == Pow10For(a)
      q == a \div p
      rem == a % p
      r == IF 2 * rem > p \/ (2 * rem = p /\ q % 2 = 1)
             THEN (q + 1) * p ELSE q * p
  IN  IF x < 0 THEN -r ELSE r

RECURSIVE Digits(_)
Digits(n) == IF n < 10 THEN << n >> ELSE Append(Digits(n \div 10), n % 10)

RECURSIVE ZeroPad(_, _)
ZeroPad(s, width) == IF Len(s) >= width THEN s ELSE ZeroPad(<< 0 >> \o s, width)

\* f"{int(np.floor(w*100))}", as the sequence of its decimal digits
wl_to_str(w) == Digits(w \div 10)

\* f"{shot+1:04d}", as the sequence of its decimal digits
shot_to_str(shot) == ZeroPad(Digits(shot + 1), 4)

\* outdir / shot_to_str(shot) / wl_to_str(w)
meas_dir(shot, w) == << shot_to_str(shot), wl_to_str(w) >>

\* range(n) as a sequence
Range(n) == [i \in 1 .. n |-> i - 1]

RECURSIVE SeqDrop(_, _)
SeqDrop(s, k) == IF k = 0 \/ s = << >> THEN s ELSE SeqDrop(Tail(s), k - 1)

Min(a, b) == IF a < b THEN a ELSE b

\* itertools.islice(it, size)
islice(s, size) == SubSeq(s, 1, Min(size, Len(s)))

\* iter_chunks as it would be if a final, shorter chunk were dropped
iter_chunks_full_only(s, size) ==
  IF size = 0 THEN << >>
  ELSE [k \in 1 .. (Len(s) \div size) |->
          SubSeq(s, (k - 1) * size + 1, k * size)]

RECURSIVE iter_chunks(_, _)
iter_chunks(s, size) ==
  LET chunk == islice(s, size)
  IN  IF Len(chunk) = 0 THEN << >>
      ELSE << chunk >> \o iter_chunks(SeqDrop(s, size), size)


CeilDiv(a, b) == IF a <= 0 THEN 0 ELSE (a + b - 1) \div b

\* [x for x in np.arange(start, stop, step)]
arange(start, stop, step) ==
  LET n == IF step > 0 THEN CeilDiv(stop - start, step)
           ELSE CeilDiv(start - stop, -step)
  IN  [k \in 1 .. n |-> start + (k - 1) * step]

\* validate_wavelength_range: TRUE when it returns, FALSE when it calls
\* sys.exit(-1)
validate_wavelength_range(start, stop, step) ==
  /\ ~IsNone(start)
  /\ ~IsNone(stop)
  /\ ~IsNone(step)
  /\ ~(\/ Val(start) < WlMin
       \/ Val(start) > WlMax
       \/ Val(stop) < WlMin
       \/ Val(stop) > WlMax)
  /\ ~(Val(start) >= Val(stop))
  /\ ~(Val(step) = 0)

\* make_wavelength_list: Some(plan) when it returns, None when it calls
\* sys.exit(-1).  stop+1 of the source is stop + 1 nm.
make_wavelength_list(start, stop, step, wl_list) ==
  IF (~IsNone(start) /\ ~IsNone(stop) /\ ~IsNone(step)) /\ Len(wl_list) # 0
    THEN None
  ELSE IF (IsNone(start) /\ IsNone(stop) /\ IsNone(step)) /\ Len(wl_list) = 0
    THEN None
  ELSE IF Len(wl_list) # 0
    THEN Some(wl_list)
  ELSE IF validate_wavelength_range(start, stop, step)
    THEN Some(arange(Val(start), Val(stop) + 1000, Val(step)))
  ELSE None

(***************************************************************************)
(* The calibration model.                                                  *)
(***************************************************************************)
\* scale * (codes - offset) + zero [- dark], element-wise on one channel
Scaled(v_scale, codes, v_offset, v_zero, dark) ==
  [i \in 1 .. Len(codes) |-> v_scale * (codes[i] - v_offset) + v_zero - dark]

\* the reconstruction as it would be if the perpendicular channel were
\* converted with the parallel channel's constants
reconstruct_perp_by_par(pre, channels, dark_sigs) ==
  IF ~IsNone(dark_sigs)
    THEN [par |-> Scaled(pre.v_scale_par, channels.par, pre.v_offset_par,
                         pre.v_zero_par, Val(dark_sigs).par),
          perp |-> Scaled(pre.v_scale_par, channels.perp, pre.v_offset_par,
                          pre.v_zero_par, Val(dark_sigs).perp),
          ref |-> Scaled(pre.v_scale_ref, channels.ref, pre.v_offset_ref,
                         pre.v_zero_ref, Val(dark_sigs).ref)]
    ELSE [par |-> Scaled(pre.v_scale_par, channels.par, pre.v_offset_par,
                         pre.v_zero_par, 0),
          perp |-> Scaled(pre.v_scale_par, channels.perp, pre.v_offset_par,
                          pre.v_zero_par, 0),
          ref |-> Scaled(pre.v_scale_ref, channels.ref, pre.v_offset_ref,
                         pre.v_zero_ref, 0)]

reconstruct_voltages_from_dig_levels(pre, channels, dark_sigs) ==
  IF ~IsNone(dark_sigs)
    THEN [par |-> Scaled(pre.v_scale_par, channels.par, pre.v_offset_par,
                         pre.v_zero_par, Val(dark_sigs).par),
          perp |-> Scaled(pre.v_scale_perp, channels.perp, pre.v_offset_perp,
                          pre.v_zero_perp, Val(dark_sigs).perp),
          ref |-> Scaled(pre.v_scale_ref, channels.ref, pre.v_offset_ref,
                         pre.v_zero_ref, Val(dark_sigs).ref)]
    ELSE [par |-> Scaled(pre.v_scale_par, channels.par, pre.v_offset_par,
                         pre.v_zero_par, 0),
          perp |-> Scaled(pre.v_scale_perp, channels.perp, pre.v_offset_perp,
                          pre.v_zero_perp, 0),
          ref |-> Scaled(pre.v_scale_ref, channels.ref, pre.v_offset_ref,
                         pre.v_zero_ref, 0)]

\* DarkSignals(voltages.par.mean(), voltages.perp.mean(), voltages.ref.mean())
DarkSignals(voltages) ==
  [par |-> Mean(voltages.par), perp |-> Mean(voltages.perp),
   ref |-> Mean(voltages.ref)]

(***************************************************************************)
(* The oscilloscope.  v is the per-channel vertical setting, a function    *)
(* from the channel number to [offset, scale].                             *)
(***************************************************************************)
\* set_vertical_offset / set_vertical_scale of one channel
set_vertical(v, chan, offset, scale) ==
  [v EXCEPT ![chan] = [offset |-> Fmt4E(offset), scale |-> Fmt4E(scale)]]

set_vertical_scale_for_measuring_offsets(v, scale) ==
  set_vertical(set_vertical(set_vertical(v, 1, 0, scale), 2, 0, scale),
               3, 0, scale)

\* set_vertical_scale_for_exp_signals as it would be if every channel got
\* the first offset
set_vertical_scale_for_exp_signals_first(v, offsets, scale) ==
  set_vertical(set_vertical(set_vertical(v, 1, offsets[1], scale),
                            2, offsets[1], scale),
               3, offsets[1], scale)

set_vertical_scale_for_exp_signals(v, offsets, scale) ==
  set_vertical(set_vertical(set_vertical(v, 1, offsets[1], scale),
                            2, offsets[2], scale),
               3, offsets[3], scale)

set_vertical_scale_for_dark_signals(v) ==
  set_vertical(set_vertical(set_vertical(v, 1, 0, DarkScale), 2, 0, DarkScale),
               3, 0, DarkScale)

\* wfmoutpre:ymult?, yzero?, yoff? of the selected channel: the multiplier
\* follows the channel's scale, the zero point its offset, and the level
\* offset is 0 once initialize_scope_settings has zeroed the positions
ymult(v, chan) == v[chan].scale
yzero(v, chan) == v[chan].offset
yoff(v, chan) == 0

get_scope_preamble(v) ==
  [v_scale_par |-> ymult(v, 1), v_zero_par |-> yzero(v, 1),
   v_offset_par |-> yoff(v, 1),
   v_scale_perp |-> ymult(v, 2), v_zero_perp |-> yzero(v, 2),
   v_offset_perp |-> yoff(v, 2),
   v_scale_ref |-> ymult(v, 3), v_zero_ref |-> yzero(v, 3),
   v_offset_ref |-> yoff(v, 3)]

(***************************************************************************)
(* The stepper.                                                            *)
(***************************************************************************)
\* the four data bytes of the device's reply, little-endian two's complement
\* (\div and % round towards minus infinity)
PosBytes(p) ==
  << p % 256, (p \div 256) % 256, (p \div 65536) % 256,
     (p \div 16777216) % 256 >>

\* A Python integer n outside 32 bits is kept as << hi, lo >> with
\* n = hi * 2^32 + lo and lo a signed 32-bit value.
Wide(n) == << 0, n >>

\* Stepper.pos applied to the data bytes resp[2..5]
StepperPos(b) ==
  IF b[4] > 127
    THEN << -1, 0 >>
    ELSE Wide(16777216 * b[4] + 65536 * b[3] + 256 * b[2] + b[1])

\* interp_steps: the calibration curve of the ZABERCAL file, here the line
\* through (780 nm, 1000 steps) with 1 step per 0.1 nm
interp_steps(wl) == 1000 + (wl - 780000) \div 100

(***************************************************************************)
(* State.                                                                  *)
(***************************************************************************)
VARIABLES
  pc,               \* position of the single control thread
  argv,             \* [wstart, wstop, wstep, wlist] given to run; they are
                    \* not passed to measure_multiwl and are forgotten there
  num_meas,         \* -n
  chunk_size,       \* -c
  dark_traces,      \* measure_multiwl's dark_traces argument
  phone_num,        \* --notify, measure_multiwl's phone_num argument
  wls,              \* the wavelength plan
  instr,            \* run's instrument sessions (line 36-41): "closed", "open"
  chunks,           \* what iter_chunks yields, as a sequence
  ci,               \* 1-based index of the current chunk
  wl_idx,           \* enumerate index of the current wavelength
  sp,               \* 1-based position in meas_chunk of the current shot
  spike_i,          \* loop index of measure_spike
  vert,             \* oscilloscope: per-channel vertical offset and scale
  trig,             \* oscilloscope: trigger state, "armed" or "save"
  curve,            \* oscilloscope: the waveform of the last trigger
  next_wave,        \* index in Waveforms of what the next trigger captures
  pump,             \* level of the analog output Dev1/ao0
  stTarget,         \* stepper device: commanded position
  stPos,            \* stepper device: position
  target_pos,       \* Stepper.move: target_pos
  curr_pos,         \* Stepper.move: curr_pos
  resp,             \* Stepper.pos: the data bytes resp[2..5] of the last reply
                    \* of the current move, zeros before the first
  mret,             \* where Stepper.move returns to
  oret,             \* where optimize_vertical_scale returns to
  loc_preamble,     \* preamble of measure_dark_signals / optimize_vertical_scale
  preamble,         \* preamble of measure_multiwl
  pre,              \* pre of measure_spike
  digitizer_levels, \* result of the last transfer_signals_from_scope
  dark_sigs,        \* dark_sigs of measure_multiwl
  meas,             \* meas of measure_multiwl: the last reconstructed shot
  dark_sig_records, \* the run-level table; None marks an entry np.empty left
  bar,              \* progress counter
  dirs,             \* directories made by mkdir
  disk,             \* outdir: slot -> the arrays saved in it
  dark_dir,         \* outdir/_dark: index -> the arrays saved in it
  darkFile,         \* dark_sigs.npy
  notified,         \* number of twilio.notify calls
  \* history variables
  visit,            \* number of wavelength visits begun
  transfers,        \* transfer calls since the last acquisition_start
  faultAt,          \* pc at which a transfer raised, or "none"
  vertEntry,        \* vert at the last entry of measure_dark_signals
  preambleAt,       \* index in trace of the capture of preamble
  acq,              \* number of acquisition_start calls so far
  capt,             \* the trigger that captured curve: the vertical
                    \* settings and the pump level then, and the number of
                    \* the acquisition it ended
  trace             \* the events of the run, in order

inputVars == << argv, num_meas, chunk_size, dark_traces, phone_num, wls,
               instr >>
loopVars == << chunks, ci, wl_idx, sp, spike_i >>
scopeVars == << vert, trig, curve, next_wave >>
stepperVars == << stTarget, stPos, target_pos, curr_pos, resp, mret >>
localVars == << loc_preamble, preamble, pre, digitizer_levels, dark_sigs,
               meas >>
outVars == << dark_sig_records, bar, dirs, disk, dark_dir, darkFile, notified >>
histVars == << visit, transfers, faultAt, vertEntry, preambleAt, acq, capt,
              trace >>

vars == << pc, inputVars, loopVars, scopeVars, pump, stepperVars, oret,
           localVars, outVars, histVars >>

NoArgs == [wstart |-> None, wstop |-> None, wstep |-> None, wlist |-> << >>]

Args == [wstart : WStarts, wstop : WStops, wstep : WSteps, wlist : WLists]

\* the vertical settings a previous session may have left on the instrument
InitVerts ==
  { [c \in Channels |-> [offset |-> 0, scale |-> ExpScale]],
    [c \in Channels |-> [offset |-> 0, scale |-> DarkScale]] }

NoPreamble == get_scope_preamble([c \in Channels |-> [offset |-> 0, scale |-> 0]])
NoLevels == [par |-> << >>, perp |-> << >>, ref |-> << >>]
NoDark == [par |-> 0, perp |-> 0, ref |-> 0]

Init ==
  /\ pc = "start"
  /\ argv = NoArgs
  /\ num_meas = 0
  /\ chunk_size = 0
  /\ dark_traces = None
  /\ phone_num = None
  /\ wls = << >>
  /\ instr = "closed"
  /\ chunks = << >>
  /\ ci = 1
  /\ wl_idx = 0
  /\ sp = 1
  /\ spike_i = 0
  /\ vert \in InitVerts
  /\ trig = "save"
  /\ curve = NoLevels
  /\ next_wave \in 1 .. Len(Waveforms)
  /\ pump = PumpOpen
  /\ stTarget = 0
  /\ stPos = 0
  /\ target_pos = 0
  /\ curr_pos = Wide(0)
  /\ resp = PosBytes(0)
  /\ mret = "none"
  /\ oret = "none"
  /\ loc_preamble = NoPreamble
  /\ preamble = NoPreamble
  /\ pre = NoPreamble
  /\ digitizer_levels = NoLevels
  /\ dark_sigs = NoDark
  /\ meas = NoLevels
  /\ dark_sig_records = << >>
  /\ bar = 0
  /\ dirs = {}
  /\ disk = << >>
  /\ dark_dir = << >>
  /\ darkFile = None
  /\ notified = 0
  /\ visit = 0
  /\ transfers = 0
  /\ faultAt = "none"
  /\ vertEntry = vert
  /\ preambleAt = 0
  /\ acq = 0
  /\ capt = [vert |-> vert, pump |-> pump, acq |-> 0]
  /\ trace = << >>

\* the events that record a completed transfer
TransferEvents == { "dark_end", "opt_end", "spike_opt_end", "persist",
                    "spike_persist" }

\* one event of the history; acq is the number of acquisitions started
\* before it and, for a transfer, capt the number of the acquisition whose
\* trigger captured the waveform transferred
Ev(name, shot, ref, val) ==
  [ev |-> name, visit |-> visit, wl_idx |-> wl_idx, shot |-> shot,
   ref |-> ref, val |-> val, acq |-> acq,
   capt |-> IF name \in TransferEvents THEN capt.acq ELSE -1]

(***************************************************************************)
(* main.run: the wavelength plan is built from the options; on an invalid  *)
(* configuration run ends in sys.exit, otherwise the actuator and the      *)
(* oscilloscope are opened and measure_multiwl is entered.                 *)
(***************************************************************************)
\* run as it would be if the sessions of lines 36-41 were opened before the
\* plan is built
run_open_first ==
  /\ pc = "start"
  /\ \E a \in Args, n \in 1 .. MaxMeas, c \in 0 .. MaxChunk,
        ph \in { None, Some(1) } :
       LET wl_list == make_wavelength_list(a.wstart, a.wstop, a.wstep, a.wlist)
       IN  /\ argv' = a
           /\ num_meas' = n
           /\ chunk_size' = c
           /\ phone_num' = ph
           /\ instr' = "open"
           /\ IF IsNone(wl_list)
                THEN pc' = "exit" /\ wls' = << >>
                ELSE pc' = "init" /\ wls' = Val(wl_list)
  /\ UNCHANGED << dark_traces, loopVars, scopeVars, pump,
                  stepperVars, oret, localVars, outVars, histVars >>

run ==
  /\ pc = "start"
  /\ \E a \in Args, n \in 1 .. MaxMeas, c \in 0 .. MaxChunk,
        ph \in { None, Some(1) } :
       LET wl_list == make_wavelength_list(a.wstart, a.wstop, a.wstep, a.wlist)
       IN  /\ argv' = a
           /\ num_meas' = n
           /\ chunk_size' = c
           /\ phone_num' = ph
           /\ IF IsNone(wl_list)
                THEN pc' = "exit" /\ wls' = << >> /\ instr' = instr
                ELSE pc' = "init" /\ wls' = Val(wl_list) /\ instr' = "open"
  /\ UNCHANGED << dark_traces, loopVars, scopeVars, pump,
                  stepperVars, oret, localVars, outVars, histVars >>

(***************************************************************************)
(* measure_multiwl, lines 66-70: the scope is initialised and started, the *)
(* dark-signal table is allocated, the chunks are laid out.                *)
(***************************************************************************)
measure_multiwl_begin ==
  /\ pc = "init"
  /\ trig' = "armed"
  /\ acq' = acq + 1
  /\ transfers' = 0
  /\ bar' = 0
  /\ dark_sig_records' =
       [p \in (0 .. num_meas - 1) \X (0 .. Len(wls) - 1) |-> None]
  /\ chunks' = iter_chunks(Range(num_meas), chunk_size)
  /\ ci' = 1
  /\ argv' = NoArgs
  /\ pc' = "chunk"
  /\ UNCHANGED << num_meas, chunk_size, dark_traces, phone_num, wls, instr,
                  wl_idx, sp, spike_i, vert, curve, next_wave, pump,
                  stepperVars, oret, localVars, dirs, disk, dark_dir,
                  darkFile,
                  notified, visit, faultAt, vertEntry, preambleAt, capt,
                  trace >>

\* the directories lines 73-78 make for one chunk
chunk_dirs(meas_chunk) ==
  { << shot_to_str(meas_chunk[k]) >> : k \in 1 .. Len(meas_chunk) }
    \cup { meas_dir(meas_chunk[k], wls[j]) :
             k \in 1 .. Len(meas_chunk), j \in 1 .. Len(wls) }

\* next_chunk as it would be if only the first chunk began at the reference
next_chunk_reference_once ==
  /\ pc = "chunk"
  /\ IF ci > Len(chunks)
       THEN /\ pc' = "save_dark"
            /\ UNCHANGED << dirs, stepperVars, wl_idx, trace >>
       ELSE /\ dirs' = dirs \cup chunk_dirs(chunks[ci])
            /\ wl_idx' = 0
            /\ IF ci = 1
                 THEN /\ stTarget' = 0
                      /\ target_pos' = 0
                      /\ curr_pos' = Wide(0)
                      /\ resp' = PosBytes(0)
                      /\ mret' = "wl"
                      /\ trace' = Append(trace, Ev("move_ref", -1, 0, None))
                      /\ pc' = "move_poll"
                      /\ UNCHANGED stPos
                 ELSE /\ pc' = "wl"
                      /\ UNCHANGED << stepperVars, trace >>
  /\ UNCHANGED << inputVars, chunks, ci, sp, spike_i, scopeVars, pump, oret,
                  localVars, dark_sig_records, bar, disk, dark_dir, darkFile,
                  notified, visit, transfers, faultAt, vertEntry, preambleAt,
                  acq, capt >>

(***************************************************************************)
(* Lines 71-82: the next chunk, if any: its directories, then the move to  *)
(* the reference position.  Stepper.move sends the command and sets        *)
(* curr_pos to 0 before its loop.                                          *)
(***************************************************************************)
next_chunk ==
  /\ pc = "chunk"
  /\ IF ci > Len(chunks)
       THEN /\ pc' = "save_dark"
            /\ UNCHANGED << dirs, stepperVars, wl_idx, trace >>
       ELSE /\ dirs' = dirs \cup chunk_dirs(chunks[ci])
            /\ stTarget' = 0
            /\ target_pos' = 0
            /\ curr_pos' = Wide(0)
            /\ resp' = PosBytes(0)
            /\ mret' = "wl"
            /\ wl_idx' = 0
            /\ trace' = Append(trace, Ev("move_ref", -1, 0, None))
            /\ pc' = "move_poll"
            /\ UNCHANGED stPos
  /\ UNCHANGED << inputVars, chunks, ci, sp, spike_i, scopeVars, pump, oret,
                  localVars, dark_sig_records, bar, disk, dark_dir, darkFile,
                  notified, visit, transfers, faultAt, vertEntry, preambleAt,
                  acq, capt >>

(***************************************************************************)
(* Lines 84-86: the next wavelength of the plan, if any: move_wl.          *)
(***************************************************************************)
next_wl ==
  /\ pc = "wl"
  /\ IF wl_idx >= Len(wls)
       THEN /\ ci' = ci + 1
            /\ pc' = "chunk"
            /\ UNCHANGED << stepperVars, visit, trace >>
       ELSE /\ stTarget' = interp_steps(wls[wl_idx + 1])
            /\ target_pos' = interp_steps(wls[wl_idx + 1])
            /\ curr_pos' = Wide(0)
            /\ resp' = PosBytes(0)
            /\ mret' = "dark"
            /\ visit' = visit + 1
            /\ trace' = Append(trace, [Ev("move_wl", -1, wls[wl_idx + 1], None)
                                        EXCEPT !.visit = visit + 1])
            /\ pc' = "move_poll"
            /\ UNCHANGED << stPos, ci >>
  /\ UNCHANGED << inputVars, chunks, wl_idx, sp, spike_i, scopeVars, pump, oret,
                  localVars, outVars, transfers, faultAt, vertEntry,
                  preambleAt, acq, capt >>

(***************************************************************************)
(* Stepper.move, line 42: one evaluation of the loop condition.            *)
(***************************************************************************)
move_poll ==
  /\ pc = "move_poll"
  /\ pc' = IF curr_pos # Wide(target_pos) THEN "move_pos" ELSE mret
  /\ UNCHANGED << inputVars, loopVars, scopeVars, pump, stepperVars, oret,
                  localVars, outVars, histVars >>

\* Stepper.pos as it would be if it took the negative branch for every reply
pos_always_negative ==
  /\ pc = "move_pos"
  /\ resp' = PosBytes(stPos)
  /\ curr_pos' = << -1, 0 >>
  /\ pc' = "move_poll"
  /\ UNCHANGED << inputVars, loopVars, scopeVars, pump, stTarget, stPos,
                  target_pos, mret, oret, localVars, outVars, histVars >>

\* Stepper.move, line 43: curr_pos = self.pos()
pos ==
  /\ pc = "move_pos"
  /\ resp' = PosBytes(stPos)
  /\ curr_pos' = StepperPos(resp')
  /\ pc' = "move_poll"
  /\ UNCHANGED << inputVars, loopVars, scopeVars, pump, stTarget, stPos,
                  target_pos, mret, oret, localVars, outVars, histVars >>

\* the stepper device reaches the commanded position
stepper_arrive ==
  /\ stPos # stTarget
  /\ stPos' = stTarget
  /\ UNCHANGED << pc, inputVars, loopVars, scopeVars, pump, stTarget,
                  target_pos, curr_pos, resp, mret, oret, localVars, outVars,
                  histVars >>

\* the digitizer triggers: the acquisition ends and a waveform is captured
scope_trigger ==
  /\ trig = "armed"
  /\ trig' = "save"
  /\ capt' = [vert |-> vert, pump |-> pump, acq |-> acq]
  /\ curve' = Waveforms[next_wave]
  /\ next_wave' = (next_wave % Len(Waveforms)) + 1
  /\ UNCHANGED << pc, inputVars, loopVars, vert, pump, stepperVars, oret,
                  localVars, outVars, visit, transfers, faultAt, vertEntry,
                  preambleAt, acq, trace >>

(***************************************************************************)
(* Oscilloscope.wait_until_triggered: returns once the trigger state is    *)
(* "save".                                                                 *)
(***************************************************************************)
TransferPc(p) ==
  CASE p = "dark_wait" -> "dark_xfer"
    [] p = "opt_wait" -> "opt_xfer"
    [] p = "shot_wait" -> "shot_xfer"
    [] p = "spike_wait" -> "spike_xfer"

\* wait_until_triggered as it would be if it returned without looking at
\* the trigger state
wait_until_triggered_no_wait ==
  /\ pc \in { "dark_wait", "opt_wait", "shot_wait", "spike_wait" }
  /\ pc' = TransferPc(pc)
  /\ UNCHANGED << inputVars, loopVars, scopeVars, pump, stepperVars, oret,
                  localVars, outVars, histVars >>

wait_until_triggered ==
  /\ pc \in { "dark_wait", "opt_wait", "shot_wait", "spike_wait" }
  /\ trig = "save"
  /\ pc' = TransferPc(pc)
  /\ UNCHANGED << inputVars, loopVars, scopeVars, pump, stepperVars, oret,
                  localVars, outVars, histVars >>

(***************************************************************************)
(* transfer_signals_from_scope raises: a get_curve query fails on the bus. *)
(* No caller catches it, so it ends measure_multiwl.                       *)
(***************************************************************************)
transfer_fault ==
  /\ pc \in { "dark_xfer", "opt_xfer", "shot_xfer", "spike_xfer" }
  /\ transfers' = transfers + 1
  /\ faultAt' = pc
  /\ pc' = "aborted"
  /\ UNCHANGED << inputVars, loopVars, scopeVars, pump, stepperVars, oret,
                  localVars, outVars, visit, vertEntry, preambleAt, acq,
                  capt, trace >>

\* the dark calibration as it would be if it ran for the first wavelength
\* only and its result were reused afterwards
measure_dark_signals_first_only ==
  /\ pc = "dark"
  /\ IF visit = 1
       THEN /\ vertEntry' = vert
            /\ vert' = set_vertical_scale_for_dark_signals(vert)
            /\ loc_preamble' = get_scope_preamble(vert')
            /\ pump' = PumpBlocked
            /\ trig' = "armed"
            /\ acq' = acq + 1
            /\ transfers' = 0
            /\ trace' = Append(trace, Ev("dark_begin", -1, 0, None))
            /\ pc' = "dark_wait"
       ELSE /\ pc' = "settle"
            /\ UNCHANGED << vertEntry, vert, loc_preamble, pump, trig,
                            transfers, acq, trace >>
  /\ UNCHANGED << inputVars, loopVars, curve, next_wave, stepperVars, oret,
                  preamble, pre, digitizer_levels, dark_sigs, meas, outVars,
                  visit,
                  faultAt, preambleAt, capt >>

\* measure_dark_signals as it would be if the pump were left unblocked
measure_dark_signals_pump_open ==
  /\ pc = "dark"
  /\ vertEntry' = vert
  /\ vert' = set_vertical_scale_for_dark_signals(vert)
  /\ loc_preamble' = get_scope_preamble(vert')
  /\ trig' = "armed"
  /\ acq' = acq + 1
  /\ transfers' = 0
  /\ trace' = Append(trace, Ev("dark_begin", -1, 0, None))
  /\ pc' = "dark_wait"
  /\ UNCHANGED << inputVars, loopVars, curve, next_wave, pump, stepperVars,
                  oret, preamble, pre, digitizer_levels, dark_sigs, meas,
                  outVars, visit, faultAt, preambleAt, capt >>

(***************************************************************************)
(* measure_dark_signals, lines 235-241: the dark range, its preamble, the  *)
(* pump blocked, the acquisition started.                                  *)
(***************************************************************************)
measure_dark_signals_begin ==
  /\ pc = "dark"
  /\ vertEntry' = vert
  /\ vert' = set_vertical_scale_for_dark_signals(vert)
  /\ loc_preamble' = get_scope_preamble(vert')
  /\ pump' = PumpBlocked
  /\ trig' = "armed"
  /\ acq' = acq + 1
  /\ transfers' = 0
  /\ trace' = Append(trace, Ev("dark_begin", -1, 0, None))
  /\ pc' = "dark_wait"
  /\ UNCHANGED << inputVars, loopVars, curve, next_wave, stepperVars, oret,
                  preamble, pre, digitizer_levels, dark_sigs, meas, outVars,
                  visit,
                  faultAt, preambleAt, capt >>

\* measure_dark_signals as it would be without the write of 8 at its end
measure_dark_signals_end_no_unblock ==
  /\ pc = "dark_xfer"
  /\ transfers' = transfers + 1
  /\ digitizer_levels' = curve
  /\ dark_sigs' = DarkSignals(
       reconstruct_voltages_from_dig_levels(loc_preamble, curve, None))
  /\ pump' = pump
  /\ trace' = Append(trace, Ev("dark_end", -1, 0, Some(dark_sigs')))
  /\ pc' = "settle"
  /\ UNCHANGED << inputVars, loopVars, scopeVars, stepperVars, oret,
                  loc_preamble, preamble, pre, meas, outVars, visit, faultAt,
                  vertEntry, preambleAt, acq, capt >>

(***************************************************************************)
(* measure_dark_signals, lines 243-251: the transfer succeeds, the means   *)
(* of the reconstructed voltages are the dark signals, the pump is         *)
(* unblocked, and the function returns to line 88.                         *)
(***************************************************************************)
measure_dark_signals_end ==
  /\ pc = "dark_xfer"
  /\ transfers' = transfers + 1
  /\ digitizer_levels' = curve
  /\ dark_sigs' = DarkSignals(
       reconstruct_voltages_from_dig_levels(loc_preamble, curve, None))
  /\ pump' = PumpOpen
  /\ trace' = Append(trace, Ev("dark_end", -1, 0, Some(dark_sigs')))
  /\ pc' = "settle"
  /\ UNCHANGED << inputVars, loopVars, scopeVars, stepperVars, oret,
                  loc_preamble, preamble, pre, meas, outVars, visit, faultAt,
                  vertEntry, preambleAt, acq, capt >>

\* optimize_vertical_scale as it would be if its preamble were read before
\* the coarse range is set
optimize_vertical_scale_preamble_first ==
  /\ pc \in { "settle", "spike_begin" }
  /\ oret' = IF pc = "settle" THEN "snap" ELSE "spike_pre"
  /\ dirs' = IF pc = "settle" THEN dirs ELSE dirs \cup { << << >> >> }
  /\ vert' = set_vertical_scale_for_measuring_offsets(vert, CoarseScale)
  /\ loc_preamble' = get_scope_preamble(vert)
  /\ trig' = "armed"
  /\ acq' = acq + 1
  /\ transfers' = 0
  /\ trace' = Append(trace, Ev(IF pc = "settle" THEN "opt_begin"
                                  ELSE "spike_opt_begin", -1, 0, None))
  /\ pc' = "opt_wait"
  /\ UNCHANGED << inputVars, loopVars, curve, next_wave, pump, stepperVars,
                  preamble, pre, digitizer_levels, dark_sigs, meas,
                  dark_sig_records,
                  bar, disk, dark_dir, darkFile, notified, visit, faultAt,
                  vertEntry, preambleAt, capt >>

(***************************************************************************)
(* optimize_vertical_scale, lines 217-219, entered from line 89 of         *)
(* measure_multiwl or from line 119 of measure_spike (after the mkdir of   *)
(* line 118).                                                              *)
(***************************************************************************)
optimize_vertical_scale_begin ==
  /\ pc \in { "settle", "spike_begin" }
  /\ oret' = IF pc = "settle" THEN "snap" ELSE "spike_pre"
  /\ dirs' = IF pc = "settle" THEN dirs ELSE dirs \cup { << << >> >> }
  /\ vert' = set_vertical_scale_for_measuring_offsets(vert, CoarseScale)
  /\ loc_preamble' = get_scope_preamble(vert')
  /\ trig' = "armed"
  /\ acq' = acq + 1
  /\ transfers' = 0
  /\ trace' = Append(trace, Ev(IF pc = "settle" THEN "opt_begin"
                                  ELSE "spike_opt_begin", -1, 0, None))
  /\ pc' = "opt_wait"
  /\ UNCHANGED << inputVars, loopVars, curve, next_wave, pump, stepperVars,
                  preamble, pre, digitizer_levels, dark_sigs, meas,
                  dark_sig_records,
                  bar, disk, dark_dir, darkFile, notified, visit, faultAt,
                  vertEntry, preambleAt, capt >>

\* lines 221-228: the channel means become the offsets, at the fine scale
optimize_vertical_scale_end ==
  /\ pc = "opt_xfer"
  /\ transfers' = transfers + 1
  /\ digitizer_levels' = curve
  /\ LET voltages ==
           reconstruct_voltages_from_dig_levels(loc_preamble, curve, None)
     IN  vert' = set_vertical_scale_for_exp_signals(
           vert,
           << Mean(voltages.par), Mean(voltages.perp), Mean(voltages.ref) >>,
           ExpScale)
  /\ trace' = Append(trace, Ev(IF oret = "snap" THEN "opt_end"
                                  ELSE "spike_opt_end", -1, 0, None))
  /\ pc' = oret
  /\ UNCHANGED << inputVars, loopVars, trig, curve, next_wave, pump,
                  stepperVars, oret, loc_preamble, preamble, pre, dark_sigs,
                  meas,
                  outVars, visit, faultAt, vertEntry, preambleAt, acq, capt >>

\* line 90 as it would be if the preamble were captured for the first
\* wavelength only and kept afterwards
capture_preamble_first_only ==
  /\ pc = "snap"
  /\ IF preambleAt = 0
       THEN /\ preamble' = get_scope_preamble(vert)
            /\ trace' = Append(trace, Ev("preamble", -1, 0, None))
            /\ preambleAt' = Len(trace')
       ELSE UNCHANGED << preamble, trace, preambleAt >>
  /\ sp' = 1
  /\ pc' = "shot"
  /\ UNCHANGED << inputVars, chunks, ci, wl_idx, spike_i, scopeVars, pump,
                  stepperVars, oret, loc_preamble, pre, digitizer_levels,
                  dark_sigs, meas, outVars, visit, transfers, faultAt,
                  vertEntry, acq, capt >>

(***************************************************************************)
(* measure_multiwl, line 90: the preamble for the shots of this visit.     *)
(***************************************************************************)
capture_preamble ==
  /\ pc = "snap"
  /\ preamble' = get_scope_preamble(vert)
  /\ trace' = Append(trace, Ev("preamble", -1, 0, None))
  /\ preambleAt' = Len(trace')
  /\ sp' = 1
  /\ pc' = "shot"
  /\ UNCHANGED << inputVars, chunks, ci, wl_idx, spike_i, scopeVars, pump,
                  stepperVars, oret, loc_preamble, pre, digitizer_levels,
                  dark_sigs, meas, outVars, visit, transfers, faultAt,
                  vertEntry, acq, capt >>

(***************************************************************************)
(* Lines 91-92: the next shot of the chunk, if any: acquisition_start.     *)
(***************************************************************************)
shot_start ==
  /\ pc = "shot"
  /\ IF sp > Len(chunks[ci])
       THEN /\ wl_idx' = wl_idx + 1
            /\ pc' = "wl"
            /\ UNCHANGED << trig, transfers, acq, trace >>
       ELSE /\ trig' = "armed"
            /\ acq' = acq + 1
            /\ transfers' = 0
            /\ trace' = Append(trace, Ev("shot_trig", chunks[ci][sp], 0, None))
            /\ pc' = "shot_wait"
            /\ UNCHANGED wl_idx
  /\ UNCHANGED << inputVars, chunks, ci, sp, spike_i, vert, curve, next_wave,
                  pump, stepperVars, oret, localVars, outVars, visit, faultAt,
                  vertEntry, preambleAt, capt >>

\* lines 94-102 as they would be if the dark signals were recorded for the
\* first shot of a chunk only
shot_done_dark_once ==
  /\ pc = "shot_xfer"
  /\ transfers' = transfers + 1
  /\ digitizer_levels' = curve
  /\ meas' = reconstruct_voltages_from_dig_levels(preamble, curve, None)
  /\ LET shot == chunks[ci][sp]
         w == wls[wl_idx + 1]
     IN  /\ meas_dir(shot, w) \in dirs
         /\ disk' = (meas_dir(shot, w) :> meas') @@ disk
         /\ dark_sig_records' =
              IF sp = 1
                THEN [dark_sig_records EXCEPT ![<< shot, wl_idx >>] =
                        Some(<< dark_sigs.par, dark_sigs.perp,
                                dark_sigs.ref >>)]
                ELSE dark_sig_records
         /\ trace' = Append(trace, Ev("persist", shot, preambleAt, None))
  /\ bar' = bar + 1
  /\ sp' = sp + 1
  /\ pc' = "shot"
  /\ UNCHANGED << inputVars, chunks, ci, wl_idx, spike_i, scopeVars, pump,
                  stepperVars, oret, loc_preamble, preamble, pre, dark_sigs,
                  dirs, dark_dir, darkFile, notified, visit, faultAt,
                  vertEntry, preambleAt, acq, capt >>

(***************************************************************************)
(* Lines 94-102: the transfer succeeds; the shot is reconstructed, saved   *)
(* in its directory, its dark signals are recorded, the bar advances.      *)
(***************************************************************************)
shot_done ==
  /\ pc = "shot_xfer"
  /\ transfers' = transfers + 1
  /\ digitizer_levels' = curve
  /\ meas' = reconstruct_voltages_from_dig_levels(preamble, curve, None)
  /\ LET shot == chunks[ci][sp]
         w == wls[wl_idx + 1]
     IN  /\ meas_dir(shot, w) \in dirs
         /\ disk' = (meas_dir(shot, w) :> meas') @@ disk
         /\ dark_sig_records' =
              [dark_sig_records EXCEPT ![<< shot, wl_idx >>] =
                 Some(<< dark_sigs.par, dark_sigs.perp, dark_sigs.ref >>)]
         /\ trace' = Append(trace, Ev("persist", shot, preambleAt, None))
  /\ bar' = bar + 1
  /\ sp' = sp + 1
  /\ pc' = "shot"
  /\ UNCHANGED << inputVars, chunks, ci, wl_idx, spike_i, scopeVars, pump,
                  stepperVars, oret, loc_preamble, preamble, pre, dark_sigs,
                  dirs, dark_dir, darkFile, notified, visit, faultAt,
                  vertEntry, preambleAt, acq, capt >>

(***************************************************************************)
(* Lines 103-106: the table is saved; with dark_traces given the etalon    *)
(* is moved to 850 and measure_spike follows.                              *)
(***************************************************************************)
save_dark_sigs ==
  /\ pc = "save_dark"
  /\ darkFile' = Some(dark_sig_records)
  /\ \E dt \in { None } \cup { Some(n) : n \in 0 .. MaxDarkTraces } :
       /\ dark_traces' = dt
       /\ IF IsNone(dt)
            THEN /\ pc' = "notify"
                 /\ UNCHANGED << stepperVars, trace >>
            ELSE /\ stTarget' = ParkPos
                 /\ target_pos' = ParkPos
                 /\ curr_pos' = Wide(0)
                 /\ resp' = PosBytes(0)
                 /\ mret' = "spike_begin"
                 /\ trace' = Append(trace, Ev("move_park", -1, 0, None))
                 /\ pc' = "move_poll"
                 /\ UNCHANGED stPos
  /\ UNCHANGED << argv, num_meas, chunk_size, phone_num, wls, instr, loopVars,
                  scopeVars, pump, oret, localVars, dark_sig_records, bar,
                  dirs,
                  disk, dark_dir, notified, visit, transfers, faultAt,
                  vertEntry, preambleAt, acq, capt >>

(***************************************************************************)
(* measure_spike, lines 120-124: its preamble, the pump blocked.           *)
(***************************************************************************)
measure_spike_begin ==
  /\ pc = "spike_pre"
  /\ pre' = get_scope_preamble(vert)
  /\ pump' = PumpBlocked
  /\ spike_i' = 0
  /\ trace' = Append(trace, Ev("spike_pre", -1, 0, None))
  /\ pc' = "spike_shot"
  /\ UNCHANGED << inputVars, chunks, ci, wl_idx, sp, scopeVars, stepperVars,
                  oret, loc_preamble, preamble, digitizer_levels, dark_sigs,
                  meas,
                  outVars, visit, transfers, faultAt, vertEntry, preambleAt,
                  acq, capt >>

\* lines 125-127 and 134-136: the next trace, or the pump unblocked
measure_spike_shot ==
  /\ pc = "spike_shot"
  /\ IF spike_i >= Val(dark_traces)
       THEN /\ pump' = PumpOpen
            /\ pc' = "notify"
            /\ UNCHANGED << trig, transfers, acq, trace >>
       ELSE /\ trig' = "armed"
            /\ acq' = acq + 1
            /\ transfers' = 0
            /\ trace' = Append(trace, Ev("spike_trig", spike_i, 0, None))
            /\ pc' = "spike_wait"
            /\ UNCHANGED pump
  /\ UNCHANGED << inputVars, loopVars, vert, curve, next_wave, stepperVars,
                  oret, localVars, outVars, visit, faultAt, vertEntry,
                  preambleAt, capt >>

\* lines 129-133: the trace is reconstructed and saved under _dark
measure_spike_done ==
  /\ pc = "spike_xfer"
  /\ transfers' = transfers + 1
  /\ digitizer_levels' = curve
  /\ dark_dir' = (shot_to_str(spike_i) :>
                    reconstruct_voltages_from_dig_levels(pre, curve, None))
                  @@ dark_dir
  /\ trace' = Append(trace, Ev("spike_persist", spike_i, 0, None))
  /\ spike_i' = spike_i + 1
  /\ pc' = "spike_shot"
  /\ UNCHANGED << inputVars, chunks, ci, wl_idx, sp, scopeVars, pump,
                  stepperVars, oret, loc_preamble, preamble, pre, dark_sigs,
                  meas,
                  dark_sig_records, bar, dirs, disk, darkFile, notified,
                  visit,
                  faultAt, vertEntry, preambleAt, acq, capt >>

(***************************************************************************)
(* Lines 108-111: the notification, when a phone number was given.         *)
(***************************************************************************)
notify ==
  /\ pc = "notify"
  /\ notified' = IF IsNone(phone_num) THEN notified ELSE notified + 1
  /\ pc' = "done"
  /\ UNCHANGED << inputVars, loopVars,
                  scopeVars, pump, stepperVars, oret, localVars,
                  dark_sig_records, bar, dirs, disk, dark_dir, darkFile,
                  visit,
                  transfers, faultAt, vertEntry, preambleAt, acq, capt,
                  trace >>

Next ==
  \/ run
  \/ measure_multiwl_begin
  \/ next_chunk
  \/ next_wl
  \/ move_poll
  \/ pos
  \/ stepper_arrive
  \/ scope_trigger
  \/ wait_until_triggered
  \/ transfer_fault
  \/ measure_dark_signals_begin
  \/ measure_dark_signals_end
  \/ optimize_vertical_scale_begin
  \/ optimize_vertical_scale_end
  \/ capture_preamble
  \/ shot_start
  \/ shot_done
  \/ save_dark_sigs
  \/ measure_spike_begin
  \/ measure_spike_shot
  \/ measure_spike_done
  \/ notify

Spec == Init /\ [][Next]_vars

(***************************************************************************)
(* The steps of the control thread, as opposed to those of the devices.    *)
(* The thread is the only one of the process and never waits except in the *)
(* loops modelled here, so it keeps taking its steps.                      *)
(***************************************************************************)
Program ==
  \/ run
  \/ measure_multiwl_begin
  \/ next_chunk
  \/ next_wl
  \/ move_poll
  \/ pos
  \/ wait_until_triggered
  \/ transfer_fault
  \/ measure_dark_signals_begin
  \/ measure_dark_signals_end
  \/ optimize_vertical_scale_begin
  \/ optimize_vertical_scale_end
  \/ capture_preamble
  \/ shot_start
  \/ shot_done
  \/ save_dark_sigs
  \/ measure_spike_begin
  \/ measure_spike_shot
  \/ measure_spike_done
  \/ notify

\* the control thread runs; nothing is assumed of the devices
SpecRunning == Spec /\ WF_vars(Program)

\* the control thread runs, every armed acquisition is eventually
\* triggered and the stepper eventually reaches the commanded position
SpecLive ==
  Spec /\ WF_vars(Program) /\ WF_vars(scope_trigger) /\ WF_vars(stepper_arrive)

(***************************************************************************)
(* reconstruct_voltages_from_dig_levels on its own: the preamble, the raw  *)
(* codes and the dark signals are drawn at the start, and the function is  *)
(* called with or without the dark signals.                                *)
(***************************************************************************)
ReconScales == { 1, 10 }
ReconOffsets == { 0, 3 }
ReconZeros == { 0, 5 }

ReconPreambles ==
  [v_scale_par : ReconScales, v_offset_par : ReconOffsets,
   v_zero_par : ReconZeros,
   v_scale_perp : ReconScales, v_offset_perp : ReconOffsets,
   v_zero_perp : ReconZeros,
   v_scale_ref : ReconScales, v_offset_ref : ReconOffsets,
   v_zero_ref : ReconZeros]

ReconDarks ==
  { [par |-> 1, perp |-> 2, ref |-> 4], [par |-> -3, perp |-> 0, ref |-> 7] }

InitRecon ==
  /\ pc = "recon"
  /\ preamble \in ReconPreambles
  /\ digitizer_levels \in { Waveforms[k] : k \in 1 .. Len(Waveforms) }
  /\ dark_sigs \in ReconDarks
  /\ meas = NoLevels
  /\ argv = NoArgs
  /\ num_meas = 0
  /\ chunk_size = 0
  /\ dark_traces = None
  /\ phone_num = None
  /\ wls = << >>
  /\ instr = "closed"
  /\ chunks = << >>
  /\ ci = 1
  /\ wl_idx = 0
  /\ sp = 1
  /\ spike_i = 0
  /\ vert = [c \in Channels |-> [offset |-> 0, scale |-> ExpScale]]
  /\ trig = "save"
  /\ curve = digitizer_levels
  /\ next_wave = 1
  /\ pump = PumpOpen
  /\ stTarget = 0
  /\ stPos = 0
  /\ target_pos = 0
  /\ curr_pos = Wide(0)
  /\ resp = PosBytes(0)
  /\ mret = "none"
  /\ oret = "none"
  /\ loc_preamble = NoPreamble
  /\ pre = NoPreamble
  /\ dark_sig_records = << >>
  /\ bar = 0
  /\ dirs = {}
  /\ disk = << >>
  /\ dark_dir = << >>
  /\ darkFile = None
  /\ notified = 0
  /\ visit = 0
  /\ transfers = 0
  /\ faultAt = "none"
  /\ vertEntry = vert
  /\ preambleAt = 0
  /\ acq = 0
  /\ capt = [vert |-> vert, pump |-> pump, acq |-> 0]
  /\ trace = << >>

\* reconstruct_voltages_from_dig_levels(preamble, digitizer_levels)
reconstruct_without_dark ==
  /\ pc = "recon"
  /\ meas' = reconstruct_voltages_from_dig_levels(preamble, digitizer_levels,
                                                   None)
  /\ pc' = "recon_nodark"
  /\ UNCHANGED << inputVars, loopVars, scopeVars, pump, stepperVars, oret,
                  loc_preamble, preamble, pre, digitizer_levels, dark_sigs,
                  outVars, histVars >>

\* reconstruct_voltages_from_dig_levels(preamble, digitizer_levels, dark_sigs)
reconstruct_with_dark ==
  /\ pc = "recon"
  /\ meas' = reconstruct_voltages_from_dig_levels(preamble, digitizer_levels,
                                                   Some(dark_sigs))
  /\ pc' = "recon_dark"
  /\ UNCHANGED << inputVars, loopVars, scopeVars, pump, stepperVars, oret,
                  loc_preamble, preamble, pre, digitizer_levels, dark_sigs,
                  outVars, histVars >>

NextRecon ==
  \/ reconstruct_without_dark
  \/ reconstruct_with_dark

SpecRecon == InitRecon /\ [][NextRecon]_vars

(***************************************************************************)
(* Stepper.move on its own: one call, for a target drawn from the signed   *)
(* 32-bit range, the device starting anywhere.                             *)
(***************************************************************************)
MoveTargets ==
  { -2147483647, -16777216, -65536, -256, -2, -1, 0, 1, 2, 255, 256,
    65535, 16777215, 2147483647 }

StartPositions == { 0, -1, 300 }

InitMove ==
  /\ pc = "move"
  /\ target_pos \in MoveTargets
  /\ stPos \in StartPositions
  /\ stTarget = stPos
  /\ curr_pos = Wide(0)
  /\ resp = PosBytes(0)
  /\ mret = "moved"
  /\ oret = "none"
  /\ argv = NoArgs
  /\ num_meas = 0
  /\ chunk_size = 0
  /\ dark_traces = None
  /\ phone_num = None
  /\ wls = << >>
  /\ instr = "open"
  /\ chunks = << >>
  /\ ci = 1
  /\ wl_idx = 0
  /\ sp = 1
  /\ spike_i = 0
  /\ vert = [c \in Channels |-> [offset |-> 0, scale |-> ExpScale]]
  /\ trig = "save"
  /\ curve = NoLevels
  /\ next_wave = 1
  /\ pump = PumpOpen
  /\ loc_preamble = NoPreamble
  /\ preamble = NoPreamble
  /\ pre = NoPreamble
  /\ digitizer_levels = NoLevels
  /\ dark_sigs = NoDark
  /\ meas = NoLevels
  /\ dark_sig_records = << >>
  /\ bar = 0
  /\ dirs = {}
  /\ disk = << >>
  /\ dark_dir = << >>
  /\ darkFile = None
  /\ notified = 0
  /\ visit = 0
  /\ transfers = 0
  /\ faultAt = "none"
  /\ vertEntry = vert
  /\ preambleAt = 0
  /\ acq = 0
  /\ capt = [vert |-> vert, pump |-> pump, acq |-> 0]
  /\ trace = << >>

\* Stepper.move, lines 40-41: the command is sent, curr_pos is set to 0
move ==
  /\ pc = "move"
  /\ stTarget' = target_pos
  /\ curr_pos' = Wide(0)
  /\ resp' = PosBytes(0)
  /\ pc' = "move_poll"
  /\ UNCHANGED << inputVars, loopVars, scopeVars, pump, stPos, target_pos,
                  mret, oret, localVars, outVars, histVars >>

NextMove ==
  \/ move
  \/ move_poll
  \/ pos
  \/ stepper_arrive

SpecMove == InitMove /\ [][NextMove]_vars

(***************************************************************************)
(* Reading the history.                                                    *)
(***************************************************************************)
Events(name) == { k \in 1 .. Len(trace) : trace[k].ev = name }
EventsOf(name, v) == { k \in Events(name) : trace[k].visit = v }
Persists(shot, i) ==
  { k \in Events("persist") : trace[k].shot = shot /\ trace[k].wl_idx = i }
Moves == SelectSeq(trace, LAMBDA e : e.ev \in { "move_ref", "move_wl" })
InShotLoop == pc \in { "shot", "shot_wait", "shot_xfer" }
AfterLoop ==
  pc \in { "save_dark", "spike_begin", "spike_pre", "spike_shot", "spike_wait",
           "spike_xfer", "notify", "done" }
  \/ (pc \in { "move_poll", "opt_wait", "opt_xfer" } /\ ~IsNone(darkFile))
  \/ (pc = "aborted" /\ ~IsNone(darkFile))

(***************************************************************************)
(* C1.  When the waveform transfer of a data shot fails once, the transfer *)
(* is retried once, the shot is persisted and the run goes on: a data shot *)
(* whose transfer has failed a single time has not ended the run.          *)
(***************************************************************************)
C1_SingleFaultIsRetried ==
  ~(pc = "aborted" /\ faultAt = "shot_xfer" /\ transfers = 1)

AbortPersistsNothing ==
  (pc = "aborted" /\ faultAt = "shot_xfer") =>
    /\ Persists(chunks[ci][sp], wl_idx) = {}
    /\ trig = "save"
    /\ bar = Cardinality(Events("persist"))

(***************************************************************************)
(* C3.  The voltages persisted for a data shot are the reconstruction of   *)
(* the shot's raw codes with the visit's preamble, minus the dark signals  *)
(* measured in the same visit.  Stated of the shot just persisted.         *)
(***************************************************************************)
C3_PersistedMinusDark ==
  (pc = "shot" /\ sp > 1) =>
    disk[meas_dir(chunks[ci][sp - 1], wls[wl_idx + 1])] =
      reconstruct_voltages_from_dig_levels(preamble, digitizer_levels,
                                           Some(dark_sigs))

\* what the code persists: the reconstruction without the dark signals
PersistedWithoutDark ==
  (pc = "shot" /\ sp > 1) =>
    disk[meas_dir(chunks[ci][sp - 1], wls[wl_idx + 1])] =
      reconstruct_voltages_from_dig_levels(preamble, digitizer_levels, None)

(***************************************************************************)
(* C4.  The preamble that reconstructs a data shot was captured in the     *)
(* shot's own wavelength visit, after that visit's auto-ranging ended and  *)
(* before the visit's first data shot was started; during the shots it is  *)
(* the preamble of the vertical settings in force.                         *)
(***************************************************************************)
C4_PreambleOfVisit ==
  /\ \A k \in Events("persist") :
       LET j == trace[k].ref
           v == trace[k].visit
       IN  /\ j \in EventsOf("preamble", v)
           /\ \E e \in EventsOf("opt_end", v) : e < j
           /\ \A t \in EventsOf("shot_trig", v) : j < t
           /\ \E t \in EventsOf("shot_trig", v) :
                t < k /\ trace[t].shot = trace[k].shot
  /\ InShotLoop =>
       /\ preambleAt \in EventsOf("preamble", visit)
       /\ preamble = get_scope_preamble(vert)

C4_Witness ==
  /\ pc = "done"
  /\ \E k \in Events("persist") : trace[k].visit >= 3

(***************************************************************************)
(* C5.  In every wavelength visit the dark-signal calibrator runs once,    *)
(* after the move to the wavelength and before the visit's auto-ranging,   *)
(* and the dark signals recorded for a shot are those of the shot's visit. *)
(***************************************************************************)
C5_DarkOncePerVisit ==
  /\ \A d \in Events("dark_begin") :
       /\ EventsOf("dark_begin", trace[d].visit) = { d }
       /\ \E m \in EventsOf("move_wl", trace[d].visit) : m < d
  /\ \A k \in Events("opt_begin") :
       /\ Cardinality(EventsOf("dark_end", trace[k].visit)) = 1
       /\ \A d \in EventsOf("dark_end", trace[k].visit) :
            /\ d < k
            /\ \E b \in EventsOf("dark_begin", trace[k].visit) : b < d
  /\ \A k \in Events("persist") :
       /\ \E o \in EventsOf("opt_begin", trace[k].visit) : o < k
       /\ \A d \in EventsOf("dark_end", trace[k].visit) :
            LET dark == Val(trace[d].val)
            IN  dark_sig_records[<< trace[k].shot, trace[k].wl_idx >>] =
                  Some(<< dark.par, dark.perp, dark.ref >>)

C5_Witness ==
  /\ pc = "done"
  /\ Len(chunks) >= 2
  /\ Len(wls) >= 2
  /\ \E k \in Events("persist") : trace[k].visit > Len(wls)
  /\ \E d1, d2 \in Events("dark_end") : trace[d1].val # trace[d2].val

(***************************************************************************)
(* C6.  When measure_dark_signals returns normally, every channel's        *)
(* vertical offset and scale are what they were when it was entered.       *)
(***************************************************************************)
C6_DarkRestoresVertical ==
  pc = "settle" => vert = vertEntry

(***************************************************************************)
(* C7.  When the transfer inside measure_dark_signals fails, the vertical  *)
(* offset and scale are back at their values at entry when the fault       *)
(* reaches the caller.                                                     *)
(***************************************************************************)
C7_FaultRestoresVertical ==
  (pc = "aborted" /\ faultAt = "dark_xfer") => vert = vertEntry

(***************************************************************************)
(* C8.  A run with chunk_size >= 1 that gets through its loop without a    *)
(* fault has persisted every (shot, wavelength index) pair exactly once,   *)
(* num_meas * W data shots in all, and at every moment the progress        *)
(* counter equals the number of data shots persisted.                      *)
(***************************************************************************)
C8_OnePersistPerPair ==
  /\ pc \notin { "start", "exit", "init" } =>
       bar = Cardinality(Events("persist"))
  /\ (AfterLoop /\ chunk_size >= 1) =>
       /\ Cardinality(Events("persist")) = num_meas * Len(wls)
       /\ \A shot \in 0 .. num_meas - 1, i \in 0 .. Len(wls) - 1 :
            Cardinality(Persists(shot, i)) = 1
       /\ \A k \in Events("persist") :
            /\ trace[k].shot \in 0 .. num_meas - 1
            /\ trace[k].wl_idx \in 0 .. Len(wls) - 1

C8_Witness ==
  /\ pc = "done"
  /\ num_meas = 3
  /\ chunk_size = 2
  /\ Len(wls) >= 2
  /\ bar = num_meas * Len(wls)

(***************************************************************************)
(* C9.  The moves commanded to the etalon in the loop come chunk by chunk: *)
(* one move to position 0, then one move_wl per wavelength of the plan, in *)
(* plan order; a loop that has ended has done so once per chunk.           *)
(***************************************************************************)
C9_ReferenceThenPlan ==
  /\ \A i \in 1 .. Len(Moves) :
       LET r == (i - 1) % (Len(wls) + 1)
       IN  IF r = 0
             THEN Moves[i].ev = "move_ref"
             ELSE Moves[i].ev = "move_wl" /\ Moves[i].ref = wls[r]
  /\ (pc \in { "move_poll", "wl" } /\ IsNone(darkFile) /\ Moves # << >>) =>
       stTarget = IF Moves[Len(Moves)].ev = "move_ref" THEN 0
                  ELSE interp_steps(Moves[Len(Moves)].ref)
  /\ AfterLoop => Len(Moves) = Len(chunks) * (Len(wls) + 1)

C9_Witness ==
  /\ pc = "done"
  /\ Len(chunks) >= 2
  /\ Len(wls) >= 2
  /\ Len(Moves) = Len(chunks) * (Len(wls) + 1)

(***************************************************************************)
(* C10.  Within a run distinct (shot index, wavelength index) pairs have   *)
(* distinct output slots, so no saved measurement is overwritten: the      *)
(* files on disk are as many as the data shots persisted.                  *)
(***************************************************************************)
C10_SlotsDistinct ==
  pc \notin { "start", "exit", "init" } =>
    /\ \A s1, s2 \in 0 .. num_meas - 1, i1, i2 \in 1 .. Len(wls) :
         << s1, i1 >> # << s2, i2 >> =>
           meas_dir(s1, wls[i1]) # meas_dir(s2, wls[i2])
    /\ Cardinality(DOMAIN disk) = bar

(***************************************************************************)
(* C11.  Every plan make_wavelength_list returns, from a -w list or from   *)
(* start/stop/step, has all its values within [780, 850] nm and is         *)
(* strictly increasing.                                                    *)
(***************************************************************************)
C11_PlanInRangeIncreasing ==
  pc = "init" =>
    /\ \A i \in 1 .. Len(wls) : WlMin <= wls[i] /\ wls[i] <= WlMax
    /\ \A i \in 1 .. Len(wls) - 1 : wls[i] < wls[i + 1]

(***************************************************************************)
(* C12.  For a range that passes validation, with step > 0, the plan is    *)
(* exactly start + k*step for k = 0, 1, 2, ... as long as the value is     *)
(* <= stop, in increasing order; it has no wavelength greater than stop.   *)
(***************************************************************************)
C12_RangeUpToStop ==
  (pc = "init" /\ argv.wlist = << >> /\ Val(argv.wstep) > 0) =>
    LET start == Val(argv.wstart)
        stop == Val(argv.wstop)
        step == Val(argv.wstep)
        n == (stop - start) \div step + 1
    IN  /\ wls = [k \in 1 .. n |-> start + (k - 1) * step]
        /\ \A i \in 1 .. Len(wls) : wls[i] <= stop

(***************************************************************************)
(* C13.  When run is given an invalid wavelength configuration (a full     *)
(* range together with a list, neither a range nor a list, or, with no     *)
(* list given, a missing start, stop or step, a start or stop outside      *)
(* [780, 850], or start >= stop), it ends with an error before the         *)
(* instrument sessions are opened and before any actuator motion or        *)
(* acquisition is commanded.                                               *)
(***************************************************************************)
InvalidConfig(a) ==
  LET given(o) == ~IsNone(o)
      outside(o) == given(o) /\ (Val(o) < WlMin \/ Val(o) > WlMax)
  IN  \/ given(a.wstart) /\ given(a.wstop) /\ given(a.wstep) /\ a.wlist # << >>
      \/ a.wlist = << >> /\
           \/ ~given(a.wstart) \/ ~given(a.wstop) \/ ~given(a.wstep)
           \/ outside(a.wstart) \/ outside(a.wstop)
           \/ Val(a.wstart) >= Val(a.wstop)

C14_NotifiedOnEveryEnd ==
  (pc \in { "done", "aborted" } /\ ~IsNone(phone_num)) => notified = 1

\* on completion the notifier has been called once, and never without a
\* phone number
NotifiedOnCompletion ==
  /\ (pc = "done" /\ ~IsNone(phone_num)) => notified = 1
  /\ IsNone(phone_num) => notified = 0
  /\ pc = "aborted" => notified = 0

(***************************************************************************)
(* C15.  Every actuator move returns to its caller after a bounded poll    *)
(* even when the reported position never becomes equal to the target: a    *)
(* move that has begun polling eventually returns, whatever the device     *)
(* does.                                                                   *)
(***************************************************************************)
C15_MoveReturns ==
  (pc \in { "move_poll", "move_pos" }) ~> (pc \notin { "move_poll", "move_pos" })

(***************************************************************************)
(* C20.  A run of measure_multiwl over a finite shot count and plan        *)
(* eventually terminates, by completion or by failure, provided every      *)
(* trigger wait eventually sees the captured state and the actuator        *)
(* eventually reports its target position.                                 *)
(***************************************************************************)
C20_RunTerminates == <>(pc \in { "done", "aborted", "exit" })

\* a run of two chunks over two wavelengths has completed
C20_Witness ==
  /\ pc = "done"
  /\ Len(chunks) >= 2
  /\ Len(wls) >= 2
  /\ bar = num_meas * Len(wls)

(***************************************************************************)
(* C16.  reconstruct_voltages_from_dig_levels returns, for each channel c  *)
(* and each sample, scale_c * (code - zero_code_offset_c) + zero_point_c   *)
(* with that channel's own constants; with dark signals given the result   *)
(* is the result without them minus dark_c; without them nothing is        *)
(* subtracted, so scale 1, offset 0 and zero point 0 return the codes.     *)
(***************************************************************************)
C16_Reconstruct ==
  pc \in { "recon_nodark", "recon_dark" } =>
    LET p == preamble
        raw == digitizer_levels
        dk == IF pc = "recon_dark" THEN dark_sigs ELSE NoDark
        plain == reconstruct_voltages_from_dig_levels(p, raw, None)
    IN  /\ Len(meas.par) = Len(raw.par)
        /\ Len(meas.perp) = Len(raw.perp)
        /\ Len(meas.ref) = Len(raw.ref)
        /\ \A i \in 1 .. Len(raw.par) :
             /\ meas.par[i] =
                  p.v_scale_par * (raw.par[i] - p.v_offset_par) + p.v_zero_par
                    - dk.par
             /\ meas.par[i] = plain.par[i] - dk.par
        /\ \A i \in 1 .. Len(raw.perp) :
             /\ meas.perp[i] =
                  p.v_scale_perp * (raw.perp[i] - p.v_offset_perp)
                    + p.v_zero_perp - dk.perp
             /\ meas.perp[i] = plain.perp[i] - dk.perp
        /\ \A i \in 1 .. Len(raw.ref) :
             /\ meas.ref[i] =
                  p.v_scale_ref * (raw.ref[i] - p.v_offset_ref) + p.v_zero_ref
                    - dk.ref
             /\ meas.ref[i] = plain.ref[i] - dk.ref
        /\ ( /\ pc = "recon_nodark"
             /\ p.v_scale_par = 1 /\ p.v_scale_perp = 1 /\ p.v_scale_ref = 1
             /\ p.v_offset_par = 0 /\ p.v_offset_perp = 0 /\ p.v_offset_ref = 0
             /\ p.v_zero_par = 0 /\ p.v_zero_perp = 0 /\ p.v_zero_ref = 0 )
           => meas = raw

\* a call with dark signals and a preamble whose channels differ in every
\* constant
C16_Witness ==
  /\ pc = "recon_dark"
  /\ preamble.v_scale_par # preamble.v_scale_perp
  /\ preamble.v_offset_par # preamble.v_offset_perp
  /\ preamble.v_zero_par # preamble.v_zero_perp
  /\ preamble.v_scale_ref # preamble.v_scale_perp
  /\ dark_sigs.par # dark_sigs.perp
  /\ meas # reconstruct_voltages_from_dig_levels(preamble, digitizer_levels,
                                                 None)

(***************************************************************************)
(* C17.  The dark acquisition of measure_dark_signals is triggered only    *)
(* with all three channels at (offset 0, scale 2e-3) and the pump output   *)
(* at 0: from its start to its transfer the settings stay so, and the      *)
(* waveform transferred was captured under them.  The pump is back at 8    *)
(* only once that waveform has been transferred.                           *)
(***************************************************************************)
DarkRange(v) == \A c \in Channels : v[c] = [offset |-> 0, scale |-> DarkScale]

C17_DarkCaptureConditions ==
  /\ pc \in { "dark_wait", "dark_xfer" } =>
       DarkRange(vert) /\ pump = PumpBlocked
  /\ pc = "dark_xfer" =>
       /\ capt.acq = acq
       /\ DarkRange(capt.vert)
       /\ capt.pump = PumpBlocked
  /\ pc = "settle" =>
       /\ pump = PumpOpen
       /\ transfers = 1
       /\ digitizer_levels = curve
       /\ trace[Len(trace)].ev = "dark_end"
       /\ trace[Len(trace)].capt = acq

\* the dark waveform of a second visit has been captured, the settings the
\* first visit left being others
C17_Witness ==
  /\ pc = "dark_xfer"
  /\ visit = 2
  /\ ~DarkRange(vertEntry)
  /\ capt.acq = acq
  /\ pump = PumpBlocked

(***************************************************************************)
(* C18 as stated.  optimize_vertical_scale triggers exactly one            *)
(* acquisition, taken with all three channels at (offset 0, scale          *)
(* 100e-3), and on return every channel c has scale 10e-3 and an offset    *)
(* equal to the mean of channel c's own reconstructed voltages from that   *)
(* acquisition.                                                            *)
(***************************************************************************)
CoarseRange(v) ==
  \A c \in Channels : v[c] = [offset |-> 0, scale |-> CoarseScale]

ChanCodes(c) ==
  CASE c = 1 -> digitizer_levels.par
    [] c = 2 -> digitizer_levels.perp
    [] c = 3 -> digitizer_levels.ref

\* the mean of channel c's voltages at the coarse range: 100e-3 * code
CoarseMean(c) ==
  Mean([i \in 1 .. Len(ChanCodes(c)) |-> CoarseScale * ChanCodes(c)[i]])

OptReturned == pc \in { "snap", "spike_pre" }

\* one acquisition was started since the entry, and its trigger captured
\* the waveform at the coarse range
OneCoarseAcquisition ==
  /\ Len(trace) >= 2
  /\ trace[Len(trace) - 1].ev \in { "opt_begin", "spike_opt_begin" }
  /\ trace[Len(trace)].ev \in { "opt_end", "spike_opt_end" }
  /\ acq = trace[Len(trace) - 1].acq + 1
  /\ trace[Len(trace)].capt = acq
  /\ capt.acq = acq
  /\ CoarseRange(capt.vert)
  /\ transfers = 1

C18_OffsetIsMean ==
  OptReturned =>
    /\ OneCoarseAcquisition
    /\ \A c \in Channels :
         vert[c].scale = ExpScale /\ vert[c].offset = CoarseMean(c)

(***************************************************************************)
(* C18, amended.  As above, the offset of channel c being the mean of      *)
(* channel c's voltages as the offset command formats it, that is rounded  *)
(* to five significant digits.                                             *)
(***************************************************************************)
C18_OffsetIsFormattedMean ==
  OptReturned =>
    /\ OneCoarseAcquisition
    /\ \A c \in Channels :
         vert[c].scale = ExpScale /\ vert[c].offset = Fmt4E(CoarseMean(c))

\* optimize_vertical_scale has returned with three different offsets, one
\* of them a mean of more than five digits
C18_Witness ==
  /\ OptReturned
  /\ vert[1].offset # vert[2].offset
  /\ vert[2].offset # vert[3].offset
  /\ \E c \in Channels : vert[c].offset # CoarseMean(c)

(***************************************************************************)
(* C19.  Every waveform transfer of a run (data shot, dark capture,        *)
(* auto-ranging capture) is preceded, since the previous transfer, by an   *)
(* acquisition start and a wait_until_triggered that returned only once    *)
(* the digitizer reported the acquisition ended by its trigger: the        *)
(* waveform transferred is the one captured by the trigger of the latest   *)
(* acquisition started, and no two transfers read the same capture.        *)
(***************************************************************************)
C19_TransferOfFreshTrigger ==
  /\ pc \in { "dark_xfer", "opt_xfer", "shot_xfer", "spike_xfer" } =>
       /\ trig = "save"
       /\ transfers = 0
       /\ capt.acq = acq
       /\ curve # NoLevels
  /\ \A k \in 1 .. Len(trace) :
       trace[k].ev \in TransferEvents =>
         /\ trace[k].capt = trace[k].acq
         /\ \A j \in 1 .. k - 1 :
              trace[j].ev \in TransferEvents => trace[j].capt < trace[k].capt

\* a data shot has been transferred after a dark capture and an
\* auto-ranging capture of the same visit
C19_Witness ==
  /\ Events("persist") # {}
  /\ Events("dark_end") # {}
  /\ Events("opt_end") # {}
  /\ Cardinality({ k \in 1 .. Len(trace) : trace[k].ev \in TransferEvents }) >= 4

(***************************************************************************)
(* C21.  validate_wavelength_range rejects every step that is not          *)
(* strictly greater than 0, zero and negative steps alike, so a run never  *)
(* starts with an empty plan derived from a range.                         *)
(***************************************************************************)
C21_StepPositivePlanNonEmpty ==
  (pc = "init" /\ argv.wlist = << >>) =>
    /\ Val(argv.wstep) > 0
    /\ wls # << >>

\* a zero step is rejected
ZeroStepRejected ==
  (pc = "init" /\ argv.wlist = << >>) => Val(argv.wstep) # 0

(***************************************************************************)
(* C22.  Whenever a data shot of measure_multiwl is triggered the pump     *)
(* output is at the unblocked level 8.  The pump is at 0 only after the    *)
(* block command of a dark calibration, or of the spike measurement that   *)
(* follows the data shots, and before the unblock command that ends it.    *)
(***************************************************************************)
C22_ShotsWithPumpOpen ==
  /\ pc \in { "shot_wait", "shot_xfer" } => pump = PumpOpen
  /\ pc = "shot_xfer" => capt.acq = acq /\ capt.pump = PumpOpen
  /\ pump = PumpBlocked =>
       \/ pc \in { "dark_wait", "dark_xfer" }
       \/ pc \in { "spike_shot", "spike_wait", "spike_xfer" }
       \/ pc = "aborted" /\ faultAt \in { "dark_xfer", "spike_xfer" }

\* a data shot of a second visit has been captured, a dark calibration
\* having blocked and unblocked the pump twice before
C22_Witness ==
  /\ pc = "shot_xfer"
  /\ visit = 2
  /\ Cardinality(Events("dark_end")) = 2
  /\ capt.acq = acq
  /\ capt.pump = PumpOpen

(***************************************************************************)
(* C23.  On every exit from measure_dark_signals, an exit by a fault of    *)
(* the trigger wait or of the waveform transfer included, the pump output  *)
(* has been commanded back to the unblocked level 8.                       *)
(***************************************************************************)
C23_PumpOpenOnEveryExit ==
  /\ pc = "settle" => pump = PumpOpen
  /\ (pc = "aborted" /\ faultAt = "dark_xfer") => pump = PumpOpen

\* on the normal return the pump is unblocked
PumpOpenOnReturn == pc = "settle" => pump = PumpOpen

(***************************************************************************)
(* C24.  Every call of reconstruct_voltages_from_dig_levels, for a data    *)
(* shot, a dark capture, an auto-ranging capture or a spike trace, uses a  *)
(* preamble captured after the most recent change of a channel's vertical  *)
(* offset or scale and before the acquisition it reconstructs was          *)
(* triggered: the preamble is that of the settings under which the         *)
(* waveform was captured, no change of the settings lies between its       *)
(* capture and the call, and the acquisition was started after it.         *)
(***************************************************************************)
VerticalChanges ==
  { k \in 1 .. Len(trace) :
      trace[k].ev \in { "dark_begin", "opt_begin", "spike_opt_begin",
                        "opt_end", "spike_opt_end" } }

\* the preamble captured at event p serves the reconstruction at event k
FreshAt(p, k) ==
  /\ p >= 1 /\ p < k
  /\ \A j \in VerticalChanges : ~(p < j /\ j < k)
  /\ trace[k].capt > trace[p].acq

C24_PreambleFresh ==
  /\ pc \in { "dark_xfer", "opt_xfer" } =>
       loc_preamble = get_scope_preamble(capt.vert) /\ capt.vert = vert
  /\ pc = "shot_xfer" =>
       preamble = get_scope_preamble(capt.vert) /\ capt.vert = vert
  /\ pc = "spike_xfer" =>
       pre = get_scope_preamble(capt.vert) /\ capt.vert = vert
  /\ \A k \in 1 .. Len(trace) :
       /\ trace[k].ev \in { "dark_end", "opt_end", "spike_opt_end" } =>
            /\ trace[k - 1].ev \in { "dark_begin", "opt_begin",
                                     "spike_opt_begin" }
            /\ FreshAt(k - 1, k)
       /\ trace[k].ev = "persist" =>
            /\ trace[k].ref \in Events("preamble")
            /\ FreshAt(trace[k].ref, k)
       /\ trace[k].ev = "spike_persist" =>
            /\ Events("spike_pre") # {}
            /\ \A p \in Events("spike_pre") : FreshAt(p, k)

\* a spike trace is about to be reconstructed after data shots of two
\* visits, whose preambles differed
C24_Witness ==
  /\ pc = "spike_xfer"
  /\ Cardinality(Events("preamble")) >= 2
  /\ Events("persist") # {}
  /\ pre # preamble
  /\ pre # loc_preamble

(***************************************************************************)
(* C25.  When measure_multiwl saves the dark-signal table after a          *)
(* fault-free run with chunk_size >= 1, every entry [shot, wavelength      *)
(* index] of the table has been assigned and holds the (par, perp, ref)    *)
(* dark signals measured at that wavelength during the chunk that          *)
(* contains the shot.                                                      *)
(***************************************************************************)
\* the visit of wavelength index i by the chunk that contains shot
VisitOf(shot, i) == (shot \div chunk_size) * Len(wls) + i + 1

C25_DarkTableComplete ==
  (~IsNone(darkFile) /\ chunk_size >= 1) =>
    LET table == Val(darkFile)
    IN  /\ DOMAIN table = (0 .. num_meas - 1) \X (0 .. Len(wls) - 1)
        /\ \A shot \in 0 .. num_meas - 1, i \in 0 .. Len(wls) - 1 :
             /\ ~IsNone(table[<< shot, i >>])
             /\ \E d \in EventsOf("dark_end", VisitOf(shot, i)) :
                  /\ trace[d].wl_idx = i
                  /\ LET dark == Val(trace[d].val)
                     IN  Val(table[<< shot, i >>]) =
                           << dark.par, dark.perp, dark.ref >>

\* the table of a run of two chunks over two wavelengths has been saved,
\* with entries that differ
C25_Witness ==
  /\ ~IsNone(darkFile)
  /\ chunk_size >= 1
  /\ Len(chunks) >= 2
  /\ Len(wls) >= 2
  /\ \E e1, e2 \in DOMAIN Val(darkFile) :
       Val(darkFile)[e1] # Val(darkFile)[e2]

(***************************************************************************)
(* C26.  Stepper.pos decodes the four data bytes of the reply as a         *)
(* little-endian signed 32-bit integer, so that the loop of Stepper.move   *)
(* sees the target as soon as the device reports it, for every signed      *)
(* 32-bit target, negative ones included: whenever the loop condition is   *)
(* evaluated curr_pos is the signed value of the last reply.               *)
(***************************************************************************)
\* the little-endian two's complement value of four bytes
Signed32(b) ==
  b[1] + 256 * b[2] + 65536 * b[3]
    + 16777216 * (IF b[4] > 127 THEN b[4] - 256 ELSE b[4])

C26_PosDecodesSigned ==
  pc = "move_poll" => curr_pos = Wide(Signed32(resp))

\* for a reply whose top byte is at most 127 pos returns the position
PosDecodesNonNegative ==
  (pc = "move_poll" /\ resp[4] <= 127) => curr_pos = Wide(Signed32(resp))

=============================================================================
